---- MODULE Spec2Model ----
(***************************************************************************)
(* Model of the sneakers/favorites HTTP service in src/main.go: main's     *)
(* start-up and shutdown, the CORS middleware, the mux route table, the    *)
(* four handlers and the two relations (favorite, sneakers) of the store.  *)
(* Requests are served one at a time; each handler is one atomic action.   *)
(* Text is a sequence of one-character strings.                            *)
(***************************************************************************)
EXTENDS Integers, Sequences, FiniteSets, TLC

VARIABLES pc, opens, closes, deferred, sneakers, favorite, nextId, cur

vars == <<pc, opens, closes, deferred, sneakers, favorite, nextId, cur>>

(* ---------------- bounds of the model ---------------- *)

\* number of INSERTs the store accepts in one run
MaxInserts == 2

\* value of the favorite id sequence when the service starts
FirstId == 9

(* ---------------- text helpers ---------------- *)

Digits == <<"0", "1", "2", "3", "4", "5", "6", "7", "8", "9">>

IsDigit(c) == \E i \in 1..10 : Digits[i] = c

DigitVal(c) == (CHOOSE i \in 1..10 : Digits[i] = c) - 1

\* strconv.Itoa for a non-negative int (what a client does with an id of a response)
RECURSIVE Itoa(_)
Itoa(n) == IF n < 10 THEN <<Digits[n + 1]>> ELSE Itoa(n \div 10) \o <<Digits[(n % 10) + 1]>>

RECURSIVE DecVal(_)
DecVal(s) == IF s = <<>> THEN 0 ELSE 10 * DecVal(SubSeq(s, 1, Len(s) - 1)) + DigitVal(s[Len(s)])

\* strconv.Atoi: optional sign, then one or more decimal digits.  The path
\* segments of the model are short, so the 64-bit range error never occurs.
Atoi(s) ==
  LET signed == s # <<>> /\ s[1] \in {"+", "-"}
      digs == IF signed THEN Tail(s) ELSE s
  IN IF digs = <<>> \/ \E i \in 1..Len(digs) : ~IsDigit(digs[i])
     THEN [ok |-> FALSE, val |-> 0]
     ELSE [ok |-> TRUE, val |-> IF signed /\ s[1] = "-" THEN 0 - DecVal(digs) ELSE DecVal(digs)]

ToLower(c) == IF c = "A" THEN "a" ELSE IF c = "B" THEN "b" ELSE c

Lower(s) == [i \in 1..Len(s) |-> ToLower(s[i])]

\* SQL LIKE: % matches any run of characters, _ any one character, and a
\* backslash makes the next pattern character literal.
RECURSIVE Like(_, _)
Like(p, t) ==
  IF p = <<>> THEN t = <<>>
  ELSE IF p[1] = "%" THEN Like(Tail(p), t) \/ (t # <<>> /\ Like(p, Tail(t)))
  ELSE IF p[1] = "_" THEN t # <<>> /\ Like(Tail(p), Tail(t))
  ELSE IF p[1] = "\\" THEN
         Len(p) >= 2 /\ t # <<>> /\ t[1] = p[2] /\ Like(Tail(Tail(p)), Tail(t))
  ELSE t # <<>> /\ t[1] = p[1] /\ Like(Tail(p), Tail(t))

\* title ILIKE $1
ILike(t, p) == Like(Lower(p), Lower(t))

\* all orders in which the rows of a set can be delivered
Perms(S) ==
  {f \in [1..Cardinality(S) -> S] : \A i, j \in 1..Cardinality(S) : f[i] = f[j] => i = j}

(* ---------------- the store ---------------- *)

\* rows of relation sneakers(id, title, price, imageUrl, isFavorite, favoriteId, isAdded)
Catalogue ==
  { [id |-> 1, title |-> <<"A", "b">>, price |-> 20, imageUrl |-> "u1",
     isFavorite |-> FALSE, favoriteId |-> "NULL", isAdded |-> FALSE],
    [id |-> 2, title |-> <<"b", "\\">>, price |-> 10, imageUrl |-> "u2",
     isFavorite |-> TRUE, favoriteId |-> "5", isAdded |-> TRUE] }

\* SELECT f.id, f.item_id, s.title, ... FROM favorite f INNER JOIN sneakers s ON f.item_id = s.id
JoinRow(f, s) ==
  [id |-> f.id, item_id |-> f.item_id, title |-> s.title, price |-> s.price,
   image_url |-> s.imageUrl, is_favorite |-> s.isFavorite,
   favorite_id |-> s.favoriteId, is_added |-> s.isAdded]

\* FavoritesQuery with the join written ON f.id = s.id
FavoritesQueryById(fav, snk) ==
  {JoinRow(f, s) : <<f, s>> \in {x \in fav \X snk : x[1].id = x[2].id}}

FavoritesQuery(fav, snk) ==
  {JoinRow(f, s) : <<f, s>> \in {x \in fav \X snk : x[1].item_id = x[2].id}}

\* one row of SELECT * FROM sneakers as getItems scans it
ItemRow(s) ==
  [id |-> s.id, title |-> s.title, price |-> s.price, image_url |-> s.imageUrl,
   is_favorite |-> s.isFavorite, favorite_id |-> s.favoriteId, is_added |-> s.isAdded]

\* the text getItems appends after ORDER BY, as the store reads it
SortColumns == {"price", "price DESC"}

Ordered(rows, sortBy) ==
  \A i, j \in 1..Len(rows) :
    i < j => IF sortBy = "price" THEN rows[i].price <= rows[j].price
             ELSE IF sortBy = "price DESC" THEN rows[i].price >= rows[j].price
             ELSE TRUE

\* the query getItems builds: the rows the store may deliver, in each order it may deliver them
ItemsQuery(snk, searchQuery, sortBy) ==
  LET pattern == <<"%">> \o searchQuery \o <<"%">>
      hit == IF searchQuery # <<>> THEN {s \in snk : ILike(s.title, pattern)} ELSE snk
  IN {rows \in Perms({ItemRow(s) : s \in hit}) : sortBy # "" => Ordered(rows, sortBy)}

\* ORDER BY <text> is rejected by the store when <text> names no column
ItemsQueryFails(sortBy) == sortBy # "" /\ sortBy \notin SortColumns

(* ---------------- responses ---------------- *)

CORSHeaders ==
  { <<"Access-Control-Allow-Origin", "*">>,
    <<"Access-Control-Allow-Methods", "POST, GET, OPTIONS, PUT, DELETE">>,
    <<"Access-Control-Allow-Headers",
      "Accept, Content-Type, Content-Length, Accept-Encoding, X-CSRF-Token, Authorization">> }

NoJSON == [null |-> FALSE, elems |-> <<>>]

EmptyBody == [kind |-> "empty", text |-> "", json |-> NoJSON]

\* w.WriteHeader(code) and nothing written
StatusOnly(code) == [status |-> code, headers |-> {}, body |-> EmptyBody]

\* http.Error(w, msg, code): plain text, the message followed by a newline
HttpError(msg, code) ==
  [status |-> code,
   headers |-> {<<"Content-Type", "text/plain; charset=utf-8">>,
                <<"X-Content-Type-Options", "nosniff">>},
   body |-> [kind |-> "text", text |-> msg, json |-> NoJSON]]

\* encoding/json of a slice: a nil slice (nothing was appended) encodes as null
Encode(list) ==
  IF list = <<>> THEN [null |-> TRUE, elems |-> <<>>] ELSE [null |-> FALSE, elems |-> list]

\* w.Header().Set("Content-Type", "application/json"); json.NewEncoder(w).Encode(list)
JSONResponse(list) ==
  [status |-> 200, headers |-> {<<"Content-Type", "application/json">>},
   body |-> [kind |-> "json", text |-> "", json |-> Encode(list)]]

(* ---------------- requests ---------------- *)

\* request bodies, as JSON tokens: "{" "}" open and close an object, "k" is the
\* member name "item_id" with its colon, "1" and "2" are integers, "f" is 1.5,
\* "s" is a string, "n" is null, "x" is text that is no JSON
Bodies ==
  { <<"{", "k", "1", "}">>, <<"{", "k", "2", "}">>, <<"{", "k", "s", "}">>,
    <<"{", "k", "f", "}">>, <<"{", "k", "n", "}">>, <<"{", "}">>,
    <<"{", "k", "1", "}", "x">>, <<"x">>, <<"{", "k", "1">>, <<>> }

IntTokens == {"1", "2"}

ValueTokens == IntTokens \cup {"f", "s", "n"}

\* the whole body is one JSON value
ValidJSON(b) ==
  \/ Len(b) = 1 /\ b[1] \in ValueTokens
  \/ b = <<"{", "}">>
  \/ Len(b) = 4 /\ b[1] = "{" /\ b[2] = "k" /\ b[3] \in ValueTokens /\ b[4] = "}"

\* json.NewDecoder(r.Body).Decode(&data) with data struct{ItemID int}: reads the
\* first JSON value of the stream and nothing after it; null and a missing
\* member leave ItemID at 0; a string or a fraction is a type error
Decode(b) ==
  IF b = <<>> THEN [ok |-> FALSE, ItemID |-> 0]
  ELSE IF b[1] = "n" THEN [ok |-> TRUE, ItemID |-> 0]
  ELSE IF b[1] # "{" THEN [ok |-> FALSE, ItemID |-> 0]
  ELSE IF Len(b) >= 2 /\ b[2] = "}" THEN [ok |-> TRUE, ItemID |-> 0]
  ELSE IF Len(b) >= 4 /\ b[2] = "k" /\ b[3] \in ValueTokens /\ b[4] = "}" THEN
         IF b[3] \in IntTokens THEN [ok |-> TRUE, ItemID |-> DecVal(<<b[3]>>)]
         ELSE IF b[3] = "n" THEN [ok |-> TRUE, ItemID |-> 0]
         ELSE [ok |-> FALSE, ItemID |-> 0]
  ELSE [ok |-> FALSE, ItemID |-> 0]

\* the {favoriteId} segments clients send
Segments ==
  {Itoa(n) : n \in (FirstId - 1)..(FirstId + MaxInserts)}
    \cup { <<"a", "b", "c">>, <<"1", "x">>, <<"-", "1">>, <<"+", "9">>, <<"-">> }

\* values of the title query parameter
Titles == { <<>>, <<"B">>, <<"_">>, <<"%">>, <<"\\">>, <<"x">> }

\* values of the sortBy query parameter
SortBys == {"", "price", "price DESC", "nosuch"}

Request(method, base, seg, title, sortBy, body) ==
  [method |-> method, base |-> base, seg |-> seg, title |-> title, sortBy |-> sortBy,
   body |-> body]

\* the route table of main: the handler mux picks, "405" when only the method
\* differs, "404" when no path matches
Route(r) ==
  IF r.base = "favorites" /\ r.seg = <<>> THEN
       IF r.method = "GET" THEN "getFavorites"
       ELSE IF r.method = "POST" THEN "postFavorite" ELSE "405"
  ELSE IF r.base = "favorites" THEN
       IF r.method = "DELETE" THEN "deleteFavorite" ELSE "405"
  ELSE IF r.base = "items" /\ r.seg = <<>> THEN
       IF r.method = "GET" THEN "getItems" ELSE "405"
  ELSE "404"

(* ---------------- handlers ---------------- *)

\* what a handler leaves behind: its response, the statements it sent to the
\* store, whether the store failed, the integer it parsed from the request,
\* and the favorite relation and id sequence after it
Outcome(resp, stmts, storeErr, arg, fav, nid) ==
  [resp |-> resp, stmts |-> stmts, storeErr |-> storeErr, arg |-> arg, fav |-> fav, nid |-> nid]

\* the two row loops: rows is what the store delivers, fail says where it fails.
\* "query": db.Query returns an error.  "scan": rows.Scan fails on row at.
\* "iter": rows.Next returns false after at rows because of an error;
\* rows.Err() is not consulted, so the rows appended so far are encoded.
RowLoop(rows, fail, at, stmt, fav, nid) ==
  IF fail = "query" THEN Outcome(HttpError("store error", 500), <<stmt>>, TRUE, 0, fav, nid)
  ELSE IF fail = "scan" THEN Outcome(HttpError("store error", 500), <<stmt>>, TRUE, 0, fav, nid)
  ELSE IF fail = "iter" THEN
         Outcome(JSONResponse(SubSeq(rows, 1, at)), <<stmt>>, TRUE, 0, fav, nid)
  ELSE Outcome(JSONResponse(rows), <<stmt>>, FALSE, 0, fav, nid)

\* where a query over rows can fail
Failures(rows) ==
  {[fail |-> "none", at |-> 0], [fail |-> "query", at |-> 0]}
    \cup {[fail |-> "scan", at |-> k] : k \in 1..Len(rows)}
    \cup {[fail |-> "iter", at |-> k] : k \in 0..(Len(rows) - 1)}

getFavorites(r, rows, f, fav, nid) == RowLoop(rows, f.fail, f.at, "SELECT favorite", fav, nid)

\* postFavorite that skips the INSERT when the item already has a favorite
postFavoriteUnique(r, execFails, fav, nid) ==
  LET data == Decode(r.body) IN
  IF ~data.ok THEN Outcome(HttpError("decode error", 400), <<>>, FALSE, 0, fav, nid)
  ELSE IF execFails THEN
         Outcome(HttpError("store error", 500), <<"INSERT">>, TRUE, data.ItemID, fav, nid)
  ELSE IF \E f \in fav : f.item_id = data.ItemID THEN
         Outcome(StatusOnly(201), <<"INSERT">>, FALSE, data.ItemID, fav, nid)
  ELSE Outcome(StatusOnly(201), <<"INSERT">>, FALSE, data.ItemID,
               fav \cup {[id |-> nid, item_id |-> data.ItemID]}, nid + 1)

postFavorite(r, execFails, fav, nid) ==
  LET data == Decode(r.body) IN
  IF ~data.ok THEN Outcome(HttpError("decode error", 400), <<>>, FALSE, 0, fav, nid)
  ELSE IF execFails THEN
         Outcome(HttpError("store error", 500), <<"INSERT">>, TRUE, data.ItemID, fav, nid)
  ELSE Outcome(StatusOnly(201), <<"INSERT">>, FALSE, data.ItemID,
               fav \cup {[id |-> nid, item_id |-> data.ItemID]}, nid + 1)

\* deleteFavorite with the statement written WHERE item_id = $1
deleteFavoriteByItem(r, execFails, fav, nid) ==
  LET favoriteId == Atoi(r.seg) IN
  IF ~favoriteId.ok THEN Outcome(HttpError("Invalid favorite ID", 400), <<>>, FALSE, 0, fav, nid)
  ELSE IF execFails THEN
         Outcome(HttpError("store error", 500), <<"DELETE">>, TRUE, favoriteId.val, fav, nid)
  ELSE Outcome(StatusOnly(204), <<"DELETE">>, FALSE, favoriteId.val,
               {x \in fav : x.item_id # favoriteId.val}, nid)

\* deleteFavorite that checks the rows affected and answers 404 when there are none
deleteFavoriteChecked(r, execFails, fav, nid) ==
  LET favoriteId == Atoi(r.seg) IN
  IF ~favoriteId.ok THEN Outcome(HttpError("Invalid favorite ID", 400), <<>>, FALSE, 0, fav, nid)
  ELSE IF execFails THEN
         Outcome(HttpError("store error", 500), <<"DELETE">>, TRUE, favoriteId.val, fav, nid)
  ELSE IF \A x \in fav : x.id # favoriteId.val THEN
         Outcome(HttpError("not found", 404), <<"DELETE">>, FALSE, favoriteId.val, fav, nid)
  ELSE Outcome(StatusOnly(204), <<"DELETE">>, FALSE, favoriteId.val,
               {x \in fav : x.id # favoriteId.val}, nid)

deleteFavorite(r, execFails, fav, nid) ==
  LET favoriteId == Atoi(r.seg) IN
  IF ~favoriteId.ok THEN Outcome(HttpError("Invalid favorite ID", 400), <<>>, FALSE, 0, fav, nid)
  ELSE IF execFails THEN
         Outcome(HttpError("store error", 500), <<"DELETE">>, TRUE, favoriteId.val, fav, nid)
  ELSE Outcome(StatusOnly(204), <<"DELETE">>, FALSE, favoriteId.val,
               {x \in fav : x.id # favoriteId.val}, nid)

getItems(r, rows, f, fav, nid) ==
  IF ItemsQueryFails(r.sortBy)
  THEN RowLoop(rows, "query", 0, "SELECT sneakers", fav, nid)
  ELSE RowLoop(rows, f.fail, f.at, "SELECT sneakers", fav, nid)

(* ---------------- router and middleware ---------------- *)

\* mux's own reply when no route matches
notFound(r, fav, nid) ==
  Outcome(HttpError(IF Route(r) = "405" THEN "405 method not allowed" ELSE "404 page not found",
                    IF Route(r) = "405" THEN 405 ELSE 404),
          <<>>, FALSE, 0, fav, nid)

\* router.ServeHTTP: the handler that ran and what it left behind
Routed(handler, out) == [handler |-> handler, routed |-> TRUE, out |-> out]

\* enableCORS without the return after WriteHeader(200): next runs as well
enableCORSFallThrough(r, next, fav, nid) ==
  IF r.method = "OPTIONS"
  THEN [next EXCEPT !.out.resp.status = 200, !.out.resp.headers = @ \cup CORSHeaders]
  ELSE [next EXCEPT !.out.resp.headers = @ \cup CORSHeaders]

\* enableCORS(router): the three headers are always set; OPTIONS is answered
\* here with 200 and next is not called; otherwise next's result stands
enableCORS(r, next, fav, nid) ==
  IF r.method = "OPTIONS"
  THEN [handler |-> "none", routed |-> FALSE,
        out |-> Outcome([StatusOnly(200) EXCEPT !.headers = CORSHeaders], <<>>, FALSE, 0, fav, nid)]
  ELSE [next EXCEPT !.out.resp.headers = @ \cup CORSHeaders]

\* the last request and its response, with the relations as the request found them
Exchange(r, served, favBefore, snkBefore) ==
  [req |-> r, resp |-> served.out.resp, handler |-> served.handler, routed |-> served.routed,
   stmts |-> served.out.stmts, storeErr |-> served.out.storeErr, arg |-> served.out.arg,
   favBefore |-> favBefore, snkBefore |-> snkBefore]

NoRequest == Request("", "", <<>>, <<>>, "", <<>>)

NoExchange ==
  [req |-> NoRequest, resp |-> StatusOnly(0), handler |-> "none", routed |-> FALSE,
   stmts |-> <<>>, storeErr |-> FALSE, arg |-> 0, favBefore |-> {}, snkBefore |-> {}]

\* http.ListenAndServe serving request r through handler = enableCORS(router)
ServeHTTP(r, next) ==
  LET served == enableCORS(r, next, favorite, nextId) IN
  /\ pc = "serving"
  /\ served.out.nid <= FirstId + MaxInserts
  /\ cur' = Exchange(r, served, favorite, sneakers)
  /\ favorite' = served.out.fav
  /\ nextId' = served.out.nid
  /\ UNCHANGED <<pc, opens, closes, deferred, sneakers>>

(* ---------------- main ---------------- *)

Init ==
  /\ pc = "start"
  /\ opens = 0
  /\ closes = 0
  /\ deferred = <<>>
  /\ sneakers \in (SUBSET Catalogue) \ {{}}
  /\ favorite = {}
  /\ nextId = FirstId
  /\ cur = NoExchange

\* log.Fatal: prints and calls os.Exit(1); deferred calls do not run
logFatal ==
  /\ pc' = "exited"
  /\ UNCHANGED <<opens, closes, deferred, sneakers, favorite, nextId, cur>>

\* sql.Open succeeds; defer db.Close() is registered
SqlOpen ==
  /\ pc = "start"
  /\ pc' = "opened"
  /\ opens' = opens + 1
  /\ deferred' = <<"db.Close">> \o deferred
  /\ UNCHANGED <<closes, sneakers, favorite, nextId, cur>>

\* sql.Open returns an error
SqlOpenFatal == pc = "start" /\ logFatal

\* db.Ping succeeds; the routes are registered and ListenAndServe starts
PingAndListen ==
  /\ pc = "opened"
  /\ pc' = "serving"
  /\ UNCHANGED <<opens, closes, deferred, sneakers, favorite, nextId, cur>>

\* db.Ping returns an error
PingFatal == pc = "opened" /\ logFatal

\* http.ListenAndServe returns (its error is never nil)
ListenAndServeFatal == pc = "serving" /\ logFatal

(* ---------------- requests served ---------------- *)

Paths == { <<"favorites", <<>> >>, <<"favorites", Itoa(FirstId)>>, <<"items", <<>> >>,
           <<"other", <<>> >> }

Options ==
  \E p \in Paths :
    LET r == Request("OPTIONS", p[1], p[2], <<>>, "", <<>>) IN
    ServeHTTP(r, Routed("none", notFound(r, favorite, nextId)))

GetFavorites ==
  \E rows \in Perms(FavoritesQuery(favorite, sneakers)) : \E f \in Failures(rows) :
    LET r == Request("GET", "favorites", <<>>, <<>>, "", <<>>) IN
    ServeHTTP(r, Routed(Route(r), getFavorites(r, rows, f, favorite, nextId)))

PostFavorite ==
  \E body \in Bodies, execFails \in BOOLEAN :
    LET r == Request("POST", "favorites", <<>>, <<>>, "", body) IN
    ServeHTTP(r, Routed(Route(r), postFavorite(r, execFails, favorite, nextId)))

DeleteFavorite ==
  \E seg \in Segments, execFails \in BOOLEAN :
    LET r == Request("DELETE", "favorites", seg, <<>>, "", <<>>) IN
    ServeHTTP(r, Routed(Route(r), deleteFavorite(r, execFails, favorite, nextId)))

GetItems ==
  \E title \in Titles, sortBy \in SortBys :
    \E rows \in ItemsQuery(sneakers, title, sortBy) : \E f \in Failures(rows) :
      LET r == Request("GET", "items", <<>>, title, sortBy, <<>>) IN
      ServeHTTP(r, Routed(Route(r), getItems(r, rows, f, favorite, nextId)))

NoRoute ==
  \E m \in {"GET", "PUT"}, p \in Paths :
    LET r == Request(m, p[1], p[2], <<>>, "", <<>>) IN
    /\ Route(r) \in {"404", "405"}
    /\ ServeHTTP(r, Routed("none", notFound(r, favorite, nextId)))

Next ==
  \/ SqlOpen
  \/ SqlOpenFatal
  \/ PingAndListen
  \/ PingFatal
  \/ ListenAndServeFatal
  \/ Options
  \/ GetFavorites
  \/ PostFavorite
  \/ DeleteFavorite
  \/ GetItems
  \/ NoRoute

Spec == Init /\ [][Next]_vars

(* ---------------- notions the properties use ---------------- *)

GetFavoritesRequest == Request("GET", "favorites", <<>>, <<>>, "", <<>>)

NoFailure == [fail |-> "none", at |-> 0]

\* the responses GET /favorites can give on relations fav and snk when the
\* store does not fail, one for each order in which the store may deliver the rows
Answers(fav, snk) ==
  {getFavorites(GetFavoritesRequest, rows, NoFailure, fav, nextId).resp :
     rows \in Perms(FavoritesQuery(fav, snk))}

Elems(resp) == resp.body.json.elems

Count(list, e) == Cardinality({i \in 1..Len(list) : list[i] = e})

\* the same entries, each as often, in any order
SameBag(a, b) == Len(a) = Len(b) /\ \A i \in 1..Len(a) : Count(a, a[i]) = Count(b, a[i])

Without(list, i) == SubSeq(list, 1, i - 1) \o SubSeq(list, i + 1, Len(list))

Exists(snk, itemId) == \E s \in snk : s.id = itemId

(* ---------------- C1 ---------------- *)

\* C1: after a successful POST /favorites whose item_id references an existing
\* sneaker, GET /favorites answers 200 with every entry it would have listed
\* before the POST, each as often, plus exactly one new entry, and that entry's
\* item_id is the posted identifier; also when the item already had a favorite.
C1_PostThenGet ==
  (cur.handler = "postFavorite" /\ cur.resp.status = 201 /\ Exists(cur.snkBefore, cur.arg)) =>
    \A before \in Answers(cur.favBefore, cur.snkBefore), after \in Answers(favorite, sneakers) :
      /\ after.status = 200
      /\ \E i \in 1..Len(Elems(after)) :
           /\ Elems(after)[i].item_id = cur.arg
           /\ Count(Elems(before), Elems(after)[i]) = 0
           /\ SameBag(Without(Elems(after), i), Elems(before))

\* a favorite is posted for an item that already has one
C1_Witness ==
  /\ cur.handler = "postFavorite" /\ cur.resp.status = 201
  /\ Exists(sneakers, cur.arg)
  /\ \E f \in cur.favBefore : f.item_id = cur.arg

(* ---------------- C2 ---------------- *)

\* C2: when DELETE /favorites/{id} is sent with the id of an entry GET /favorites
\* listed, and the store executes the statement, the answer is 204 with an empty
\* body and GET /favorites then lists what it listed before without exactly that
\* entry, every other entry unchanged.
C2_DeleteThenGet ==
  ( /\ cur.handler = "deleteFavorite" /\ ~cur.storeErr
    /\ \E before \in Answers(cur.favBefore, cur.snkBefore) :
         \E i \in 1..Len(Elems(before)) : cur.req.seg = Itoa(Elems(before)[i].id) ) =>
    /\ cur.resp.status = 204
    /\ cur.resp.body = EmptyBody
    /\ \A before \in Answers(cur.favBefore, cur.snkBefore), after \in Answers(favorite, sneakers) :
         /\ after.status = 200
         /\ \E i \in 1..Len(Elems(before)) :
              /\ cur.req.seg = Itoa(Elems(before)[i].id)
              /\ SameBag(Elems(after), Without(Elems(before), i))
              /\ \A j \in 1..Len(Elems(after)) : Elems(after)[j].id # Elems(before)[i].id

\* one of two listed favorites is deleted
C2_Witness ==
  /\ cur.handler = "deleteFavorite" /\ cur.resp.status = 204
  /\ Cardinality(FavoritesQuery(cur.favBefore, cur.snkBefore)) = 2
  /\ Cardinality(FavoritesQuery(favorite, sneakers)) = 1

(* ---------------- C3 ---------------- *)

\* C3: DELETE /favorites/{id} with an integer id that matches no favorite, the
\* store executing the statement, answers 204 and leaves both relations as they
\* were; and after any DELETE answered 204 the same DELETE again answers 204
\* and leaves the store as the first left it.
C3_DeleteAbsent ==
  (cur.handler = "deleteFavorite" /\ Atoi(cur.req.seg).ok /\ ~cur.storeErr) =>
    /\ cur.resp.status = 204
    /\ (\A f \in cur.favBefore : f.id # Atoi(cur.req.seg).val) =>
         (cur.resp.body = EmptyBody /\ favorite = cur.favBefore /\ sneakers = cur.snkBefore)
    /\ LET again == deleteFavorite(cur.req, FALSE, favorite, nextId) IN
         again.resp.status = 204 /\ again.fav = favorite /\ again.nid = nextId

\* an id that matches none of the favorites there are
C3_Witness ==
  /\ cur.handler = "deleteFavorite" /\ cur.resp.status = 204
  /\ cur.favBefore # {}
  /\ \A f \in cur.favBefore : f.id # cur.arg

(* ---------------- C4 ---------------- *)

\* C4: a request whose method is OPTIONS, on any path, is answered 200 with an
\* empty body and the three Access-Control-Allow headers; the router and the
\* handlers do not run, no statement reaches the store and both relations stay
\* as they were.
C4_Preflight ==
  cur.req.method = "OPTIONS" =>
    /\ cur.resp.status = 200
    /\ cur.resp.body = EmptyBody
    /\ CORSHeaders \subseteq cur.resp.headers
    /\ ~cur.routed /\ cur.handler = "none"
    /\ cur.stmts = <<>>
    /\ favorite = cur.favBefore /\ sneakers = cur.snkBefore

\* a preflight for a path with no route, with favorites in the store
C4_Witness == cur.req.method = "OPTIONS" /\ cur.req.base = "other" /\ favorite # {}

(* ---------------- C5 ---------------- *)

\* the item_id member of the body is a string or null
ItemIdNotNumber(b) == Len(b) >= 3 /\ b[1] = "{" /\ b[2] = "k" /\ b[3] \in {"s", "n"}

\* C5: DELETE /favorites/{x} with x no integer answers 400 "Invalid favorite ID",
\* POST /favorites with a body that is no valid JSON or whose item_id is no
\* number answers 400, and in both cases no statement reaches the store and the
\* favorite relation stays as it was.
C5_ClientErrors ==
  /\ (cur.handler = "deleteFavorite" /\ ~Atoi(cur.req.seg).ok) =>
       /\ cur.resp.status = 400 /\ cur.resp.body.text = "Invalid favorite ID"
       /\ cur.stmts = <<>> /\ favorite = cur.favBefore
  /\ (cur.handler = "postFavorite" /\ (~ValidJSON(cur.req.body) \/ ItemIdNotNumber(cur.req.body))) =>
       /\ cur.resp.status = 400
       /\ cur.stmts = <<>> /\ favorite = cur.favBefore

(* ---------------- C6 ---------------- *)

\* v occurs in t as a run of consecutive characters
Contains(t, v) == \E i \in 0..(Len(t) - Len(v)) : SubSeq(t, i + 1, i + Len(v)) = v

\* C6: GET /items?title=v with v not empty, answered 200 by a store that did
\* not fail, lists exactly the sneakers whose title contains v literally,
\* letter case ignored.
C6_TitleFilter ==
  (cur.handler = "getItems" /\ cur.req.title # <<>> /\ cur.resp.status = 200 /\ ~cur.storeErr) =>
    {Elems(cur.resp)[i].id : i \in 1..Len(Elems(cur.resp))}
      = {s.id : s \in {x \in sneakers : Contains(Lower(x.title), Lower(cur.req.title))}}

(* ---------------- C7 ---------------- *)

\* C7: GET /favorites on a store that does not fail answers 200 with exactly one
\* entry for each favorite whose item_id is the id of a sneaker, carrying the
\* favorite's id and item_id and that sneaker's fields; a favorite whose item_id
\* matches no sneaker has no entry, and two favorites of one item have one each.
C7_ListFavorites ==
  (cur.handler = "getFavorites" /\ ~cur.storeErr) =>
    LET L == Elems(cur.resp) IN
    /\ cur.resp.status = 200
    /\ \A f \in favorite :
         IF Exists(sneakers, f.item_id)
         THEN Cardinality({i \in 1..Len(L) : L[i].id = f.id /\ L[i].item_id = f.item_id}) = 1
         ELSE \A i \in 1..Len(L) : L[i].id # f.id
    /\ \A i \in 1..Len(L) : \E f \in favorite, s \in sneakers :
         /\ f.id = L[i].id /\ f.item_id = L[i].item_id /\ s.id = f.item_id
         /\ L[i].title = s.title /\ L[i].price = s.price /\ L[i].image_url = s.imageUrl
         /\ L[i].is_favorite = s.isFavorite /\ L[i].favorite_id = s.favoriteId
         /\ L[i].is_added = s.isAdded

\* a favorite of a sneaker is listed while a favorite of no sneaker is in the store
C7_Witness ==
  /\ cur.handler = "getFavorites" /\ cur.resp.status = 200 /\ ~cur.storeErr
  /\ Len(Elems(cur.resp)) >= 1
  /\ \E f \in favorite : ~Exists(sneakers, f.item_id)

(* ---------------- C8 ---------------- *)

\* C8: every 200 response of GET /favorites and of GET /items has a JSON array
\* as its body, also when the query matched no row.
C8_JSONArray ==
  (cur.handler \in {"getFavorites", "getItems"} /\ cur.resp.status = 200) =>
    (cur.resp.body.kind = "json" /\ ~cur.resp.body.json.null)

(* ---------------- C9 ---------------- *)

\* C9: a request during which the store fails (the query, a row scan, the row
\* iteration, the INSERT or the DELETE) is answered 500, never 200, 201 or 204.
C9_StoreFailure == cur.storeErr => cur.resp.status = 500

(* ---------------- C10 ---------------- *)

\* C10: the connection is opened once before any request is served, and is
\* closed exactly once whenever the process has exited after opening it.
C10_OpenClose ==
  /\ opens <= 1
  /\ cur # NoExchange => opens = 1
  /\ (pc = "exited" /\ opens = 1) => closes = 1

====
